---- MODULE Spec2Model ----
(***************************************************************************)
(* Encryption layer of the cryfs block store (blockstore/encrypted/mod.rs) *)
(* and the capacity-tracked buffer it is built on (data/growable_data.rs). *)
(*                                                                         *)
(* Three specifications:                                                   *)
(*   SpecBuf      GrowableData windowing operations on one buffer          *)
(*   Spec         EncryptedBlockStore over an honest underlying store      *)
(*   SpecCorrupt  store and load over a medium that may alter a record     *)
(***************************************************************************)
EXTENDS Integers, Sequences, FiniteSets, TLC

VARIABLES
    native,       \* byte order of the build: "le" or "be"
    underTotal,   \* B::REQUIRED_PREFIX_BYTES_TOTAL of the underlying store
    blocks,       \* contents of the underlying store: id -> record
    written,      \* per id, the plaintext last written and the record made for it
    last,         \* the last call on the EncryptedBlockStore and its outcome
    gd,           \* the GrowableData under test
    alive,        \* whether gd exists (it is consumed by a failed operation)
    bufLast,      \* the last GrowableData operation, its operand and outcome
    orig          \* the Vec<u8> gd was made from

vars == <<native, underTotal, blocks, written, last, gd, alive, bufLast, orig>>
storeVars == <<native, underTotal, blocks, written, last>>
bufVars == <<gd, alive, bufLast, orig>>

\* ---------------------------------------------------------------- bounds
ByteMod == 2          \* a byte takes the values 0 .. ByteMod-1
MaxVec == 4           \* longest Vec<u8> turned into a GrowableData<0,0>
MaxDelta == 2         \* largest const generic amount of a shrink / grow
MaxLen == 1           \* longest plaintext written through the store
MaxUnderPrefix == 1   \* largest B::REQUIRED_PREFIX_BYTES_TOTAL
MaxPhys == 6          \* largest physical block size asked about
MaxFree == 1          \* largest free-bytes estimate of the underlying store

Byte == 0 .. (ByteMod - 1)
Ids == {"b1", "missing"}

\* the ids the caller writes blocks under
StoredIds == {"b1"}

RECURSIVE SeqsUpTo(_)
SeqsUpTo(n) ==
    IF n = 0 THEN { <<>> }
    ELSE LET shorter == SeqsUpTo(n - 1)
         IN  shorter \cup { Append(s, b) : s \in { t \in shorter : Len(t) = n - 1 }, b \in Byte }

Zeros(n) == [i \in 1 .. n |-> 0]

RECURSIVE SumSeq(_)
SumSeq(s) == IF s = <<>> THEN 0 ELSE Head(s) + SumSeq(Tail(s))

\* Rust slice s[from..to] (0-based, end exclusive)
Slice(s, from, to) == SubSeq(s, from + 1, to)

\* ------------------------------------------------------------------ Data
\* The raw buffer: one allocation in three zones.
EmptyData == [prefix |-> <<>>, window |-> <<>>, suffix |-> <<>>]

Data_from(vec) == [prefix |-> <<>>, window |-> vec, suffix |-> <<>>]

Data_len(d) == Len(d.window)

Data_available_prefix_bytes(d) == Len(d.prefix)

Data_available_suffix_bytes(d) == Len(d.suffix)

\* into_subregion(from..to); the caller guarantees from <= to <= len
Data_into_subregion(d, from, to) ==
    [prefix |-> d.prefix \o Slice(d.window, 0, from),
     window |-> Slice(d.window, from, to),
     suffix |-> Slice(d.window, to, Len(d.window)) \o d.suffix]

\* grow_region(add_begin, add_end) -> Result<Data>
Data_grow_region(d, add_begin, add_end) ==
    IF add_begin > Len(d.prefix) \/ add_end > Len(d.suffix)
    THEN [ok |-> FALSE, data |-> EmptyData]
    ELSE [ok |-> TRUE,
          data |-> [prefix |-> Slice(d.prefix, 0, Len(d.prefix) - add_begin),
                    window |-> Slice(d.prefix, Len(d.prefix) - add_begin, Len(d.prefix))
                               \o d.window \o Slice(d.suffix, 0, add_end),
                    suffix |-> Slice(d.suffix, add_end, Len(d.suffix))]]

\* as_mut()[..Len(bytes)].copy_from_slice(bytes)
Data_write_front(d, bytes) ==
    [d EXCEPT !.window = bytes \o Slice(d.window, Len(bytes), Len(d.window))]

\* ---------------------------------------------------------- GrowableData
\* GrowableData<P, S>: the const generic arguments are the fields P and S.
NoGD == [P |-> 0, S |-> 0, data |-> EmptyData]

\* outcome of an operation that consumes a buffer:
\*   "ok"          a buffer is returned
\*   "panic"       an assertion / expect / unwrap failed at run time
\*   "const_error" the const generic arithmetic is rejected at build time
GDResult(st, g) == [st |-> st, g |-> g]

GD_available_prefix_bytes(g) == g.P

GD_available_suffix_bytes(g) == g.S

GD_len(g) == Data_len(g.data)

check_invariant(g) ==
    /\ Data_available_prefix_bytes(g.data) >= g.P
    /\ Data_available_suffix_bytes(g.data) >= g.S

GD_from(vec) == [P |-> 0, S |-> 0, data |-> Data_from(vec)]

\* into_subregion that keeps the bytes at the end in the window and does not
\* run _check_invariant on its result
GD_into_subregion_unchecked(g, delete_begin, delete_end) ==
    LET len == Data_len(g.data)
    IN  IF delete_begin + delete_end > len
        THEN GDResult("panic", NoGD)
        ELSE GDResult("ok", [P |-> g.P + delete_begin,
                             S |-> g.S + delete_end,
                             data |-> Data_into_subregion(g.data, delete_begin, len)])

\* into_subregion asserting delete_begin + delete_end < len
GD_into_subregion_strict(g, delete_begin, delete_end) ==
    LET len == Data_len(g.data)
    IN  IF delete_begin + delete_end >= len
        THEN GDResult("panic", NoGD)
        ELSE LET result == [P |-> g.P + delete_begin,
                            S |-> g.S + delete_end,
                            data |-> Data_into_subregion(g.data, delete_begin,
                                                         len - delete_end)]
             IN  IF check_invariant(result)
                 THEN GDResult("ok", result)
                 ELSE GDResult("panic", NoGD)

GD_into_subregion(g, delete_begin, delete_end) ==
    LET len == Data_len(g.data)
    IN  IF delete_begin + delete_end > len
        THEN GDResult("panic", NoGD)
        ELSE LET result == [P |-> g.P + delete_begin,
                            S |-> g.S + delete_end,
                            data |-> Data_into_subregion(g.data, delete_begin,
                                                         len - delete_end)]
             IN  IF check_invariant(result)
                 THEN GDResult("ok", result)
                 ELSE GDResult("panic", NoGD)

\* grow_region handing ADD_NUM_BYTES_AT_BEGINNING to Data::grow_region twice
GD_grow_region_begin_twice(g, add_begin, add_end) ==
    IF g.P < add_begin \/ g.S < add_end
    THEN GDResult("const_error", NoGD)
    ELSE LET grown == Data_grow_region(g.data, add_begin, add_begin)
         IN  IF ~grown.ok
             THEN GDResult("panic", NoGD)
             ELSE LET result == [P |-> g.P - add_begin,
                                 S |-> g.S - add_end,
                                 data |-> grown.data]
                  IN  IF check_invariant(result)
                      THEN GDResult("ok", result)
                      ELSE GDResult("panic", NoGD)

\* The return type is GrowableData<{P - ADD_BEGIN}, {S - ADD_END}>: a usize
\* subtraction in a const expression, whose underflow stops the build.
GD_grow_region(g, add_begin, add_end) ==
    IF g.P < add_begin \/ g.S < add_end
    THEN GDResult("const_error", NoGD)
    ELSE LET grown == Data_grow_region(g.data, add_begin, add_end)
         IN  IF ~grown.ok
             THEN GDResult("panic", NoGD)
             ELSE LET result == [P |-> g.P - add_begin,
                                 S |-> g.S - add_end,
                                 data |-> grown.data]
                  IN  IF check_invariant(result)
                      THEN GDResult("ok", result)
                      ELSE GDResult("panic", NoGD)

GD_extract(g) == g.data

\* TryFrom<Data> for GrowableData<P, S> -> Result<Self>
GD_try_from(d, P, S) ==
    IF Data_available_prefix_bytes(d) # P THEN [ok |-> FALSE, g |-> NoGD]
    ELSE IF Data_available_suffix_bytes(d) # S THEN [ok |-> FALSE, g |-> NoGD]
    ELSE [ok |-> TRUE, g |-> [P |-> P, S |-> S, data |-> d]]

\* ---------------------------------------------------------------- Cipher
\* A cipher with a one byte nonce and a one byte authentication tag, laid
\* out as nonce ++ tag ++ payload.
NONCE_LEN == 1
TAG_LEN == 1
CIPHERTEXT_OVERHEAD == NONCE_LEN + TAG_LEN

EncryptBytes(plain, nonce) ==
    [i \in 1 .. Len(plain) |-> (plain[i] + nonce + i) % ByteMod]

DecryptBytes(c, nonce) ==
    [i \in 1 .. Len(c) |-> (c[i] + ByteMod * (nonce + i) - nonce - i) % ByteMod]

Mac(nonce, c) == (1 + nonce + SumSeq(c)) % ByteMod

\* encrypt(GrowableData<P, 0>) -> Result<GrowableData<{P - CIPHERTEXT_OVERHEAD}, 0>>
Cipher_encrypt(g, nonce) ==
    LET grown == GD_grow_region(g, CIPHERTEXT_OVERHEAD, 0)
    IN  IF grown.st # "ok" THEN grown
        ELSE LET c == EncryptBytes(g.data.window, nonce)
             IN  GDResult("ok", [grown.g EXCEPT !.data =
                     Data_write_front(grown.g.data, <<nonce, Mac(nonce, c)>> \o c)])

\* ------------------------------------------------------- returned values
NoRet ==
    [kind |-> "none", data |-> <<>>, flag |-> FALSE, num |-> 0, ids |-> {},
     err |-> "none", found |-> <<>>, names_min |-> FALSE, min |-> 0]

OkSome(bytes) == [NoRet EXCEPT !.kind = "some", !.data = bytes]
OkNone == [NoRet EXCEPT !.kind = "absent"]
OkBool(b) == [NoRet EXCEPT !.kind = "bool", !.flag = b]
OkUnit == [NoRet EXCEPT !.kind = "unit"]
OkNum(n) == [NoRet EXCEPT !.kind = "num", !.num = n]
OkIds(S) == [NoRet EXCEPT !.kind = "ids", !.ids = S]
Err(e) == [NoRet EXCEPT !.kind = "err", !.err = e]
Panic == [NoRet EXCEPT !.kind = "panic"]
ConstError == [NoRet EXCEPT !.kind = "const_error"]

\* decrypt(Data) -> Result<Data>
Cipher_decrypt(bytes) ==
    IF Len(bytes) < CIPHERTEXT_OVERHEAD THEN Err("decrypt")
    ELSE LET nonce == bytes[1]
             tag == bytes[NONCE_LEN + 1]
             c == Slice(bytes, CIPHERTEXT_OVERHEAD, Len(bytes))
         IN  IF Mac(nonce, c) # tag THEN Err("decrypt")
             ELSE OkSome(DecryptBytes(c, nonce))

\* ------------------------------------------------------ underlying store
NoBlock == [present |-> FALSE, bytes |-> <<>>]

Under_load(b, id, fail) ==
    IF fail THEN Err("underlying")
    ELSE IF b[id].present THEN OkSome(b[id].bytes) ELSE OkNone

Under_num_blocks(b, fail) ==
    [ret |-> IF fail THEN Err("underlying")
             ELSE OkNum(Cardinality({i \in Ids : b[i].present})),
     blocks |-> b, calls |-> 1]

Under_estimate_num_free_bytes(b, free, fail) ==
    [ret |-> IF fail THEN Err("underlying") ELSE OkNum(free),
     blocks |-> b, calls |-> 1]

Under_all_blocks(b, fail) ==
    [ret |-> IF fail THEN Err("underlying") ELSE OkIds({i \in Ids : b[i].present}),
     blocks |-> b, calls |-> 1]

Under_remove(b, id, fail) ==
    IF fail THEN [ret |-> Err("underlying"), blocks |-> b, calls |-> 1]
    ELSE [ret |-> OkBool(b[id].present),
          blocks |-> [b EXCEPT ![id] = NoBlock], calls |-> 1]

\* The underlying store takes a GrowableData<B::REQUIRED_PREFIX_BYTES_TOTAL, 0>,
\* writes its own header into the reserve and keeps the record it was given.
Under_write(b, id, g, fail, create_only) ==
    IF g.P # underTotal \/ g.S # 0 THEN [ret |-> ConstError, blocks |-> b]
    ELSE LET own == GD_grow_region(g, underTotal, 0)
         IN  IF own.st # "ok" THEN [ret |-> Panic, blocks |-> b]
             ELSE IF fail THEN [ret |-> Err("underlying"), blocks |-> b]
             ELSE IF create_only /\ b[id].present THEN [ret |-> OkBool(FALSE), blocks |-> b]
             ELSE [ret |-> IF create_only THEN OkBool(TRUE) ELSE OkUnit,
                   blocks |-> [b EXCEPT ![id] =
                       [present |-> TRUE,
                        bytes |-> Slice(own.g.data.window, underTotal,
                                        Len(own.g.data.window))]]]

Under_store_optimized(b, id, g, fail) == Under_write(b, id, g, fail, FALSE)

Under_try_create_optimized(b, id, g, fail) == Under_write(b, id, g, fail, TRUE)

\* --------------------------------------------------- EncryptedBlockStore
\* FORMAT_VERSION_HEADER = 1u16.to_ne_bytes()
FORMAT_VERSION_HEADER == IF native = "le" THEN <<1, 0>> ELSE <<0, 1>>

HEADER_LEN == Len(FORMAT_VERSION_HEADER)

REQUIRED_PREFIX_BYTES_SELF == HEADER_LEN + CIPHERTEXT_OVERHEAD

REQUIRED_PREFIX_BYTES_TOTAL == underTotal + REQUIRED_PREFIX_BYTES_SELF

StartsWith(s, p) == Len(s) >= Len(p) /\ Slice(s, 0, Len(p)) = p

ErrCorrupt(found) == [Err("corrupt") EXCEPT !.found = found]

ErrConfig(names_min, min) == [Err("config") EXCEPT !.names_min = names_min, !.min = min]

\* _check_and_remove_header stripping one byte more than the header
check_and_remove_header_off_by_one(data) ==
    IF ~StartsWith(data.window, FORMAT_VERSION_HEADER)
    THEN IF Data_len(data) < HEADER_LEN
         THEN [ret |-> Panic, data |-> EmptyData]
         ELSE [ret |-> ErrCorrupt(Slice(data.window, 0, HEADER_LEN)), data |-> EmptyData]
    ELSE IF Data_len(data) < HEADER_LEN + 1
         THEN [ret |-> Panic, data |-> EmptyData]
         ELSE [ret |-> OkUnit,
               data |-> Data_into_subregion(data, HEADER_LEN + 1, Data_len(data))]

\* the error message formats &data[..FORMAT_VERSION_HEADER.len()], and that
\* slice panics when data is shorter than the header
check_and_remove_header(data) ==
    IF ~StartsWith(data.window, FORMAT_VERSION_HEADER)
    THEN IF Data_len(data) < HEADER_LEN
         THEN [ret |-> Panic, data |-> EmptyData]
         ELSE [ret |-> ErrCorrupt(Slice(data.window, 0, HEADER_LEN)), data |-> EmptyData]
    ELSE [ret |-> OkUnit, data |-> Data_into_subregion(data, HEADER_LEN, Data_len(data))]

\* _prepend_header that grows the window but leaves the two bytes as they are
prepend_header_unwritten(g) == GD_grow_region(g, HEADER_LEN, 0)

prepend_header(g) ==
    LET grown == GD_grow_region(g, HEADER_LEN, 0)
    IN  IF grown.st # "ok" THEN grown
        ELSE GDResult("ok", [grown.g EXCEPT !.data =
                 Data_write_front(grown.g.data, FORMAT_VERSION_HEADER)])

\* _encrypt, with the buffer after each of its two steps
encrypt(plaintext, nonce) ==
    LET ciphertext == Cipher_encrypt(plaintext, nonce)
    IN  [encrypted |-> ciphertext,
         result |-> IF ciphertext.st # "ok" THEN ciphertext
                    ELSE prepend_header(ciphertext.g)]

\* _decrypt that falls back to the undecrypted bytes when the cipher fails
decrypt_swallowing(ciphertext) ==
    LET stripped == check_and_remove_header(ciphertext)
    IN  IF stripped.ret.kind # "unit" THEN stripped.ret
        ELSE LET plain == Cipher_decrypt(stripped.data.window)
             IN  IF plain.kind = "err" THEN OkSome(stripped.data.window) ELSE plain

decrypt(ciphertext) ==
    LET stripped == check_and_remove_header(ciphertext)
    IN  IF stripped.ret.kind # "unit" THEN stripped.ret
        ELSE Cipher_decrypt(stripped.data.window)

Enc_load(b, id, fail) ==
    LET loaded == Under_load(b, id, fail)
    IN  IF loaded.kind = "err" THEN loaded
        ELSE IF loaded.kind = "absent" THEN OkNone
        ELSE decrypt(Data_from(loaded.data))

Enc_num_blocks(b, fail) == Under_num_blocks(b, fail)

Enc_estimate_num_free_bytes(b, free, fail) == Under_estimate_num_free_bytes(b, free, fail)

Enc_all_blocks(b, fail) == Under_all_blocks(b, fail)

\* remove that reports a failure of the underlying store as Ok(false)
Enc_remove_swallowing(b, id, fail) ==
    LET r == Under_remove(b, id, fail)
    IN  IF r.ret.kind = "err" THEN [r EXCEPT !.ret = OkBool(FALSE)] ELSE r

Enc_remove(b, id, fail) == Under_remove(b, id, fail)

\* u64::checked_sub
checked_sub(a, b) == IF a < b THEN [some |-> FALSE, v |-> 0] ELSE [some |-> TRUE, v |-> a - b]

block_size_from_physical_block_size(block_size) ==
    LET ciphertext_size == checked_sub(block_size, HEADER_LEN)
    IN  IF ~ciphertext_size.some THEN ErrConfig(TRUE, HEADER_LEN)
        ELSE LET plain_size == checked_sub(ciphertext_size.v, CIPHERTEXT_OVERHEAD)
             IN  IF ~plain_size.some THEN ErrConfig(FALSE, 0)
                 ELSE OkNum(plain_size.v)

\* allocate that reserves REQUIRED_PREFIX_BYTES_SELF only
allocate_self_only(size) ==
    LET d == Data_into_subregion(Data_from(Zeros(REQUIRED_PREFIX_BYTES_TOTAL + size)),
                                 REQUIRED_PREFIX_BYTES_SELF,
                                 REQUIRED_PREFIX_BYTES_TOTAL + size)
        conv == GD_try_from(d, REQUIRED_PREFIX_BYTES_TOTAL, 0)
    IN  IF conv.ok THEN GDResult("ok", conv.g) ELSE GDResult("panic", NoGD)

allocate(size) ==
    LET d == Data_into_subregion(Data_from(Zeros(REQUIRED_PREFIX_BYTES_TOTAL + size)),
                                 REQUIRED_PREFIX_BYTES_TOTAL,
                                 REQUIRED_PREFIX_BYTES_TOTAL + size)
        conv == GD_try_from(d, REQUIRED_PREFIX_BYTES_TOTAL, 0)
    IN  IF conv.ok THEN GDResult("ok", conv.g) ELSE GDResult("panic", NoGD)

\* the caller copies its plaintext into the window of the allocated buffer
Fill(g, plain) == [g EXCEPT !.data = Data_write_front(g.data, plain)]

\* what a buffer looks like: declared and actual reserves, window length
Shape(r) ==
    [st |-> r.st, P |-> r.g.P, S |-> r.g.S,
     prefix |-> Data_available_prefix_bytes(r.g.data),
     suffix |-> Data_available_suffix_bytes(r.g.data),
     len |-> Data_len(r.g.data)]

NoShape == Shape(GDResult("none", NoGD))

\* store_optimized / try_create_optimized up to the call of the underlying
\* store: data.extract().try_into().unwrap(), then _encrypt
Enc_prepare(data, nonce) ==
    LET conv == GD_try_from(GD_extract(data), REQUIRED_PREFIX_BYTES_TOTAL, 0)
    IN  IF ~conv.ok
        THEN [converted |-> GDResult("panic", NoGD),
              encrypted |-> GDResult("none", NoGD),
              result |-> GDResult("panic", NoGD)]
        ELSE [converted |-> GDResult("ok", conv.g)] @@ encrypt(conv.g, nonce)

\* ---------------------------------------------------------------- state
NoWritten == [present |-> FALSE, plain |-> <<>>, rec |-> <<>>]

NoLast ==
    [op |-> "none", id |-> "", size |-> 0, ret |-> NoRet,
     underRet |-> NoRet, underBlocks |-> [i \in Ids |-> NoBlock], calls |-> 0,
     allocated |-> NoShape, converted |-> NoShape,
     encrypted |-> NoShape, forwarded |-> NoShape]

NoBufLast == [op |-> "none", a |-> 0, b |-> 0, pre |-> NoGD, st |-> "none"]

Plaintexts == SeqsUpTo(MaxLen)

InitStore ==
    /\ native \in {"le", "be"}
    /\ underTotal \in 0 .. MaxUnderPrefix
    /\ blocks = [i \in Ids |-> NoBlock]
    /\ written = [i \in Ids |-> NoWritten]
    /\ last = NoLast

IdleStore ==
    /\ native = "le"
    /\ underTotal = 0
    /\ blocks = [i \in Ids |-> NoBlock]
    /\ written = [i \in Ids |-> NoWritten]
    /\ last = NoLast

IdleBuf ==
    /\ gd = NoGD
    /\ alive = FALSE
    /\ bufLast = NoBufLast
    /\ orig = <<>>

Init == InitStore /\ IdleBuf

InitCorrupt == InitStore /\ underTotal = 0 /\ IdleBuf

InitBuf ==
    /\ IdleStore
    /\ \E vec \in SeqsUpTo(MaxVec) :
           /\ gd = GD_from(vec)
           /\ orig = vec
    /\ alive = TRUE
    /\ bufLast = NoBufLast

\* ------------------------------------------------- GrowableData actions
IntoSubregion(delete_begin, delete_end) ==
    /\ alive
    /\ LET r == GD_into_subregion(gd, delete_begin, delete_end)
       IN  /\ gd' = r.g
           /\ alive' = (r.st = "ok")
           /\ bufLast' = [op |-> "into_subregion", a |-> delete_begin,
                          b |-> delete_end, pre |-> gd, st |-> r.st]
    /\ UNCHANGED <<orig, storeVars>>

GrowRegion(add_begin, add_end) ==
    /\ alive
    /\ LET r == GD_grow_region(gd, add_begin, add_end)
       IN  /\ gd' = r.g
           /\ alive' = (r.st = "ok")
           /\ bufLast' = [op |-> "grow_region", a |-> add_begin,
                          b |-> add_end, pre |-> gd, st |-> r.st]
    /\ UNCHANGED <<orig, storeVars>>

NextBuf ==
    \/ \E a, b \in 0 .. MaxDelta : IntoSubregion(a, b)
    \/ \E a, b \in 0 .. MaxDelta : GrowRegion(a, b)

SpecBuf == InitBuf /\ [][NextBuf]_vars

\* ------------------------------------------- EncryptedBlockStore actions
\* allocate, fill, then store_optimized / try_create_optimized
WriteAction(op, id, plain, nonce, fail) ==
    \E a \in {allocate(Len(plain))} :
    \E p \in {Enc_prepare(Fill(a.g, plain), nonce)} :
    \E u \in {IF op = "store"
             THEN Under_store_optimized(blocks, id, p.result.g, fail)
             ELSE Under_try_create_optimized(blocks, id, p.result.g, fail)} :
        IF a.st # "ok"
        THEN /\ last' = [NoLast EXCEPT !.op = op, !.id = id, !.size = Len(plain),
                                       !.ret = Panic, !.allocated = Shape(a)]
             /\ UNCHANGED <<blocks, written>>
        ELSE IF p.result.st # "ok"
        THEN /\ last' = [NoLast EXCEPT !.op = op, !.id = id, !.size = Len(plain),
                                       !.ret = IF p.result.st = "panic"
                                               THEN Panic ELSE ConstError,
                                       !.allocated = Shape(a),
                                       !.converted = Shape(p.converted),
                                       !.encrypted = Shape(p.encrypted),
                                       !.forwarded = Shape(p.result)]
             /\ UNCHANGED <<blocks, written>>
        ELSE /\ blocks' = u.blocks
             /\ written' = IF u.ret = OkUnit \/ u.ret = OkBool(TRUE)
                           THEN [written EXCEPT ![id] =
                                    [present |-> TRUE, plain |-> plain,
                                     rec |-> u.blocks[id].bytes]]
                           ELSE written
             /\ last' = [NoLast EXCEPT !.op = op, !.id = id, !.size = Len(plain),
                                       !.ret = u.ret, !.allocated = Shape(a),
                                       !.converted = Shape(p.converted),
                                       !.encrypted = Shape(p.encrypted),
                                       !.forwarded = Shape(p.result)]

Store(id, plain, nonce, fail) ==
    /\ WriteAction("store", id, plain, nonce, fail)
    /\ UNCHANGED <<native, underTotal, bufVars>>

TryCreate(id, plain, nonce, fail) ==
    /\ WriteAction("try_create", id, plain, nonce, fail)
    /\ UNCHANGED <<native, underTotal, bufVars>>

Load(id, fail) ==
    /\ last' = [NoLast EXCEPT !.op = "load", !.id = id,
                              !.ret = Enc_load(blocks, id, fail),
                              !.underRet = Under_load(blocks, id, fail)]
    /\ UNCHANGED <<native, underTotal, blocks, written, bufVars>>

\* a call the layer hands through: e is what the layer did, u what the
\* underlying store does when called directly in the same state
Passthrough(op, id, enc, under) ==
    \E e \in {enc} : \E u \in {under} :
        /\ blocks' = e.blocks
        /\ last' = [NoLast EXCEPT !.op = op, !.id = id, !.ret = e.ret, !.calls = e.calls,
                                  !.underRet = u.ret, !.underBlocks = u.blocks]

Remove(id, fail) ==
    /\ Passthrough("remove", id, Enc_remove(blocks, id, fail), Under_remove(blocks, id, fail))
    /\ written' = IF blocks'[id].present THEN written
                  ELSE [written EXCEPT ![id] = NoWritten]
    /\ UNCHANGED <<native, underTotal, bufVars>>

NumBlocks(fail) ==
    /\ Passthrough("num_blocks", "", Enc_num_blocks(blocks, fail),
                   Under_num_blocks(blocks, fail))
    /\ UNCHANGED <<native, underTotal, written, bufVars>>

EstimateNumFreeBytes(free, fail) ==
    /\ Passthrough("estimate_num_free_bytes", "",
                   Enc_estimate_num_free_bytes(blocks, free, fail),
                   Under_estimate_num_free_bytes(blocks, free, fail))
    /\ UNCHANGED <<native, underTotal, written, bufVars>>

AllBlocks(fail) ==
    /\ Passthrough("all_blocks", "", Enc_all_blocks(blocks, fail),
                   Under_all_blocks(blocks, fail))
    /\ UNCHANGED <<native, underTotal, written, bufVars>>

BlockSizeFromPhysicalBlockSize(block_size) ==
    /\ last' = [NoLast EXCEPT !.op = "block_size", !.size = block_size,
                              !.ret = block_size_from_physical_block_size(block_size)]
    /\ UNCHANGED <<native, underTotal, blocks, written, bufVars>>

\* what the medium can turn a stored record into: one byte changed, the
\* first two bytes overwritten, or the record cut short
Flips(rec) ==
    { [rec EXCEPT ![i] = v] : i \in 1 .. Len(rec), v \in Byte }

Overwrites(rec) ==
    { <<v, w>> \o Slice(rec, 2, Len(rec)) : v \in Byte, w \in Byte }

Truncations(rec) ==
    { Slice(rec, 0, n) : n \in 0 .. Len(rec) }

Corruptions(rec) == Flips(rec) \cup Overwrites(rec) \cup Truncations(rec)

\* the medium under the underlying store alters a record it was given
Corrupt(id, rec) ==
    /\ blocks[id].present
    /\ blocks[id].bytes = written[id].rec
    /\ rec # blocks[id].bytes
    /\ blocks' = [blocks EXCEPT ![id].bytes = rec]
    /\ last' = [NoLast EXCEPT !.op = "corrupt", !.id = id]
    /\ UNCHANGED <<native, underTotal, written, bufVars>>

Next ==
    \/ \E id \in StoredIds, plain \in Plaintexts, nonce \in Byte, fail \in BOOLEAN :
           Store(id, plain, nonce, fail)
    \/ \E id \in StoredIds, plain \in Plaintexts, nonce \in Byte, fail \in BOOLEAN :
           TryCreate(id, plain, nonce, fail)
    \/ \E id \in Ids, fail \in BOOLEAN : Load(id, fail)
    \/ \E id \in Ids, fail \in BOOLEAN : Remove(id, fail)
    \/ \E fail \in BOOLEAN : NumBlocks(fail)
    \/ \E free \in 0 .. MaxFree, fail \in BOOLEAN : EstimateNumFreeBytes(free, fail)
    \/ \E fail \in BOOLEAN : AllBlocks(fail)
    \/ \E block_size \in 0 .. MaxPhys : BlockSizeFromPhysicalBlockSize(block_size)

Spec == Init /\ [][Next]_vars

NextCorrupt ==
    \/ \E id \in StoredIds, plain \in Plaintexts, nonce \in Byte :
           Store(id, plain, nonce, FALSE)
    \/ \E id \in Ids, fail \in BOOLEAN : Load(id, fail)
    \/ \E id \in Ids : \E rec \in Corruptions(blocks[id].bytes) : Corrupt(id, rec)

SpecCorrupt == InitCorrupt /\ [][NextCorrupt]_vars

\* ------------------------------- tests::nested_subregions_still_do_the_right_thing
\* data_region(1024, 0); only the position of a byte matters here
TestRegion == [i \in 1 .. 1024 |-> i % 256]

NestedSteps ==
    << <<0, 0>>, <<5, 0>>, <<0, 19>>, <<0, 49>>, <<10, 51>>, <<3, 89>>,
       <<0, 0>>, <<5, 0>>, <<0, 93>>, <<0, 49>>, <<10, 51>>, <<3, 89>> >>

RECURSIVE IntoSubregions(_, _)
IntoSubregions(r, steps) ==
    IF steps = <<>> \/ r.st # "ok" THEN r
    ELSE IntoSubregions(GD_into_subregion(r.g, Head(steps)[1], Head(steps)[2]), Tail(steps))

NestedSubdata == IntoSubregions(GDResult("ok", GD_from(TestRegion)), NestedSteps)

\* [..][5..][..1000][..=950][10..900][3..=800][..][5..][..700][..=650][10..600][3..=500]
NestedExpected ==
    LET s1 == Slice(TestRegion, 5, 1024)
        s2 == Slice(s1, 0, 1000)
        s3 == Slice(s2, 0, 951)
        s4 == Slice(s3, 10, 900)
        s5 == Slice(s4, 3, 801)
        s6 == Slice(s5, 5, Len(s5))
        s7 == Slice(s6, 0, 700)
        s8 == Slice(s7, 0, 651)
        s9 == Slice(s8, 10, 600)
    IN  Slice(s9, 3, 501)

\* ================================================================ claims

\* C1: a plaintext written through store, or through a try_create that
\* reported "created", is what load of that id returns, byte for byte; load
\* of an id the underlying store does not hold returns None, not an error.
C1_RoundTrip ==
    (last.op = "load" /\ last.underRet.kind # "err") =>
        /\ written[last.id].present => last.ret = OkSome(written[last.id].plain)
        /\ ~blocks[last.id].present => last.ret = OkNone

C1_Witness ==
    /\ last.op = "load"
    /\ last.ret.kind = "some"
    /\ Len(last.ret.data) = MaxLen
    /\ last.ret.data = written[last.id].plain

\* C2: whenever the underlying store returns a record, of any length, whose
\* first two bytes are not the format version header, load returns a
\* corrupt-block error and no plaintext.
C2_HeaderChecked ==
    (/\ last.op = "load"
     /\ last.underRet.kind = "some"
     /\ ~StartsWith(last.underRet.data, FORMAT_VERSION_HEADER)) =>
        /\ last.ret.kind = "err"
        /\ last.ret.err = "corrupt"
        /\ last.ret.data = <<>>

\* one byte of now differs from orig, and it lies after the header
SingleFlipInCiphertext(rec, now) ==
    /\ Len(now) = Len(rec)
    /\ Cardinality({i \in 1 .. Len(rec) : rec[i] # now[i]}) = 1
    /\ \A i \in 1 .. HEADER_LEN : rec[i] = now[i]

\* C3: when one byte after the header of a stored record has been changed,
\* load fails with exactly the error the cipher's decrypt reports, and
\* carries no plaintext.
C3_TamperDetected ==
    (/\ last.op = "load"
     /\ last.underRet.kind = "some"
     /\ written[last.id].present
     /\ SingleFlipInCiphertext(written[last.id].rec, last.underRet.data)) =>
        /\ last.ret = Cipher_decrypt(Slice(last.underRet.data, HEADER_LEN,
                                           Len(last.underRet.data)))
        /\ last.ret.kind = "err"
        /\ last.ret.err = "decrypt"
        /\ last.ret.data = <<>>

C3_Witness ==
    /\ last.op = "load"
    /\ last.underRet.kind = "some"
    /\ written[last.id].present
    /\ Len(written[last.id].plain) > 0
    /\ SingleFlipInCiphertext(written[last.id].rec, last.underRet.data)
    /\ last.underRet.data[Len(last.underRet.data)] # written[last.id].rec[Len(written[last.id].rec)]

\* C4: every record in the underlying store is 2 + CIPHERTEXT_OVERHEAD + n
\* bytes long, n the length of the plaintext it was written for, and starts
\* with the format version header.
C4_RecordLayout ==
    \A id \in Ids :
        blocks[id].present =>
            /\ written[id].present
            /\ Len(blocks[id].bytes) = 2 + CIPHERTEXT_OVERHEAD + Len(written[id].plain)
            /\ Slice(blocks[id].bytes, 0, 2) = FORMAT_VERSION_HEADER

C4_Witness ==
    /\ last.op = "try_create"
    /\ last.ret = OkBool(TRUE)
    /\ blocks[last.id].present
    /\ Len(written[last.id].plain) = MaxLen

\* C5: a buffer that exists has at least its declared P bytes of prefix
\* reserve and its declared S bytes of suffix reserve, and its three zones
\* add up to the length of the allocation it was made from.
C5_CapacityInvariant ==
    alive =>
        /\ Data_available_prefix_bytes(gd.data) >= GD_available_prefix_bytes(gd)
        /\ Data_available_suffix_bytes(gd.data) >= GD_available_suffix_bytes(gd)
        /\ Len(gd.data.prefix) + Len(gd.data.window) + Len(gd.data.suffix) = Len(orig)

C5_Witness ==
    /\ alive
    /\ Len(orig) = MaxVec
    /\ bufLast.op = "grow_region"
    /\ bufLast.st = "ok"
    /\ bufLast.a > 0
    /\ GD_available_prefix_bytes(gd) > 0
    /\ GD_available_suffix_bytes(gd) > 0

\* C6: grow_region(add_begin, add_end) returns a buffer only when
\* P >= add_begin and S >= add_end; the buffer then declares P - add_begin
\* and S - add_end, its window is add_begin + add_end longer and holds the
\* old window at offset add_begin. Otherwise the call is rejected at build
\* time or panics, and no buffer exists.
C6_GrowRegion ==
    bufLast.op = "grow_region" =>
        LET pre == bufLast.pre
            old == bufLast.pre.data.window
        IN  IF pre.P >= bufLast.a /\ pre.S >= bufLast.b
            THEN bufLast.st = "ok" =>
                    /\ alive
                    /\ gd.P = pre.P - bufLast.a
                    /\ gd.S = pre.S - bufLast.b
                    /\ GD_len(gd) = Len(old) + bufLast.a + bufLast.b
                    /\ Slice(gd.data.window, bufLast.a, bufLast.a + Len(old)) = old
            ELSE /\ bufLast.st \in {"const_error", "panic"}
                 /\ ~alive

C6_Witness ==
    /\ bufLast.op = "grow_region"
    /\ bufLast.st = "ok"
    /\ bufLast.a = 1
    /\ bufLast.b = 2
    /\ Len(bufLast.pre.data.window) > 0

\* C7: into_subregion(delete_begin, delete_end) with
\* delete_begin + delete_end <= len returns a buffer declaring
\* P + delete_begin and S + delete_end whose window is the old window without
\* its first delete_begin and last delete_end bytes, the removed bytes staying
\* in the allocation; with delete_begin + delete_end > len it panics and no
\* buffer exists. The twelve nested calls of the test on 1024 bytes end with
\* 36 prefix bytes, 490 suffix bytes and the nested slice as window.
C7_Step ==
    bufLast.op = "into_subregion" =>
        LET pre == bufLast.pre
            old == bufLast.pre.data.window
        IN  IF bufLast.a + bufLast.b <= Len(old)
            THEN /\ bufLast.st = "ok"
                 /\ alive
                 /\ GD_available_prefix_bytes(gd) = pre.P + bufLast.a
                 /\ GD_available_suffix_bytes(gd) = pre.S + bufLast.b
                 /\ gd.data.window = Slice(old, bufLast.a, Len(old) - bufLast.b)
                 /\ gd.data.prefix \o gd.data.window \o gd.data.suffix
                        = pre.data.prefix \o old \o pre.data.suffix
            ELSE /\ bufLast.st = "panic"
                 /\ ~alive

C7_Nested ==
    /\ NestedSubdata.st = "ok"
    /\ GD_available_prefix_bytes(NestedSubdata.g) = 36
    /\ GD_available_suffix_bytes(NestedSubdata.g) = 490
    /\ NestedSubdata.g.data.window = NestedExpected
    /\ GD_len(NestedSubdata.g) = 498

C7_IntoSubregion == C7_Step /\ C7_Nested

C7_Witness ==
    /\ bufLast.op = "into_subregion"
    /\ bufLast.st = "ok"
    /\ bufLast.a = 1
    /\ bufLast.b = 1
    /\ bufLast.pre.P > 0
    /\ Len(bufLast.pre.data.window) = 2

\* C8: block_size_from_physical_block_size(s) is s - header length -
\* CIPHERTEXT_OVERHEAD when s is at least header length +
\* CIPHERTEXT_OVERHEAD, and otherwise a configuration error that names a
\* minimum required size.
C8_SizeArithmetic ==
    last.op = "block_size" =>
        IF last.size >= HEADER_LEN + CIPHERTEXT_OVERHEAD
        THEN last.ret = OkNum(last.size - HEADER_LEN - CIPHERTEXT_OVERHEAD)
        ELSE /\ last.ret.kind = "err"
             /\ last.ret.err = "config"
             /\ last.ret.names_min

\* C9: remove, num_blocks, estimate_num_free_bytes and all_blocks return what
\* the same call on the underlying store returns, value or error, leave the
\* underlying store as that call leaves it, and make that call once.
C9_Passthrough ==
    last.op \in {"remove", "num_blocks", "estimate_num_free_bytes", "all_blocks"} =>
        /\ last.ret = last.underRet
        /\ blocks = last.underBlocks
        /\ last.calls = 1

C9_Witness ==
    /\ last.op = "remove"
    /\ last.ret = OkBool(TRUE)
    /\ last.underRet = OkBool(TRUE)
    /\ ~blocks[last.id].present

\* C10: allocate(size) gives a window of size bytes with exactly
\* header length + CIPHERTEXT_OVERHEAD + B::REQUIRED_PREFIX_BYTES_TOTAL bytes
\* of prefix reserve, declared and actual, and no suffix reserve; on the write
\* path the re-validation passes, encrypt takes CIPHERTEXT_OVERHEAD bytes of
\* the reserve, the header 2 more, the buffer handed to the underlying store
\* keeps exactly B::REQUIRED_PREFIX_BYTES_TOTAL, and nothing panics.
C10_WritePath ==
    last.op \in {"store", "try_create"} =>
        LET total == HEADER_LEN + CIPHERTEXT_OVERHEAD + underTotal
            at(p, n) == [st |-> "ok", P |-> p, S |-> 0, prefix |-> p, suffix |-> 0,
                         len |-> n]
        IN  /\ last.allocated = at(total, last.size)
            /\ last.converted = at(total, last.size)
            /\ last.encrypted = at(total - CIPHERTEXT_OVERHEAD,
                                   last.size + CIPHERTEXT_OVERHEAD)
            /\ last.forwarded = at(underTotal, last.size + CIPHERTEXT_OVERHEAD + 2)
            /\ last.ret.kind \notin {"panic", "const_error"}

C10_Witness ==
    /\ last.op = "store"
    /\ last.ret = OkUnit
    /\ last.size = MaxLen
    /\ underTotal = MaxUnderPrefix
    /\ last.forwarded.prefix = MaxUnderPrefix

====
